---- MODULE Spec2Model ----
(***************************************************************************)
(* Model of @umituz/react-native-sensors: the two ISensorService adapters  *)
(* (ExpoPedometerAdapter, MockSensorAdapter), the external capabilities    *)
(* they drive (expo-sensors' Pedometer, setInterval/clearInterval) and the *)
(* metric calculator they use for derived fields.                          *)
(*                                                                         *)
(* One adapter instance is modelled; `kind` says which class it is.        *)
(* Spec           : subscription lifecycle, calls awaited one after another*)
(* SpecConcurrent : simulation adapter, calls issued without awaiting      *)
(* SpecQuery      : availability / permission / range / history queries    *)
(***************************************************************************)
EXTENDS Integers, Sequences, FiniteSets, TLC

\* ------------------------------------------------------------- bounds
\* External subscription handles (hardware) or interval timers (simulation)
\* created during one run.
MaxSubs == 3
\* Largest cumulative count an external notification carries, and cap of the
\* simulation's running total.
MaxSteps == 4
\* Largest `days` argument given to getHistoricalSteps.
MaxDays == 3

\* The callbacks a caller may supply to startStepCounting.
Callbacks == {"cbA", "cbB"}

\* An optional value: `undefined`, or a present value.
Undefined == <<>>
Some(x) == <<x>>

VARIABLES
    kind,           \* "pedometer" (ExpoPedometerAdapter) or "mock" (MockSensorAdapter)
    subscription,   \* ExpoPedometerAdapter.subscription: 0 (null) or a handle
    lastStepCount,  \* ExpoPedometerAdapter.lastStepCount
    watchers,       \* Pedometer's listeners: handle -> [callback, live, removes]
    intervalId,     \* MockSensorAdapter.intervalId: 0 (null) or a timer id
    currentSteps,   \* MockSensorAdapter.currentSteps
    isRunning,      \* MockSensorAdapter.isRunning
    timers,         \* the runtime's interval timers: id -> [callback, live, last],
                    \* `last` the steps of the update the timer emitted last
    pending,        \* startStepCounting calls suspended at `await stopStepCounting()`
    result,         \* what the most recent operation returned (or that it threw)
    delivered,      \* callback invocations made by the most recent step
    lastCallback,   \* callback of the most recent startStepCounting that returned
    terminated,     \* "none", or the operation ("cleanup", "stopStepCounting") that
                    \* last returned with no startStepCounting called since
    restarted,      \* the most recent startStepCounting that returned found one active
    resetFrom,      \* -1, or the delta baseline stopStepCounting reset, while no
                    \* update has been delivered since
    now,            \* the wall clock read by `new Date()`
    hook            \* the useStepCounter instance driving the adapter, if any

vars == <<kind, subscription, lastStepCount, watchers, intervalId, currentSteps,
          isRunning, timers, pending, result, delivered, lastCallback,
          terminated, restarted, resetFrom, now, hook>>

hwVars == <<subscription, lastStepCount, watchers>>
mockVars == <<intervalId, currentSteps, isRunning, timers, pending>>

\* ------------------------------------------------------------- the clock
\* A Date in local time: calendar fields and the millisecond of the day.
MsPerHour == 3600000

Epoch == [y |-> 2024, m |-> 0, d |-> 15, ms |-> 10 * MsPerHour]

\* ------------------------------------------- external pedometer listeners
\* Outcomes of subscriptionHandle.remove(): it returns, or it throws having
\* deregistered the listener, or it throws leaving the listener registered.
RemoveOutcomes == {"ok", "throwRemoved", "throwKept"}
\* Outcomes of Pedometer.watchStepCount(listener).
WatchOutcomes == {"ok", "throw"}

RemoveThrows(ro) == ro # "ok"

Saturate(n) == IF n >= 2 THEN 2 ELSE n + 1

\* The listeners after handle h's remove() ended with outcome ro.
Remove(ws, h, ro) ==
    [ws EXCEPT ![h] = [callback |-> @.callback,
                       live |-> IF ro = "throwKept" THEN @.live ELSE FALSE,
                       removes |-> Saturate(@.removes)]]

\* The listeners after watchStepCount registered a listener calling `callback`.
Watch(ws, callback) ==
    Append(ws, [callback |-> callback, live |-> TRUE, removes |-> 0])

LiveWatchers == {h \in DOMAIN watchers : watchers[h].live}

\* ------------------------------------------------- ExpoPedometerAdapter
\* Mutant: startStepCounting subscribes without removing the handle it holds.
StartTeardownSkipped(ws, sub, ro) == ws

\* startStepCounting, lines 64-66: tear down the subscription held, if any.
StartTeardown(ws, sub, ro) ==
    IF sub # 0 THEN Remove(ws, sub, ro) ELSE ws

\* Mutant: the delta is reported whenever it is not negative (`>=` for `>`).
StepUpdateOfNonNegative(steps, last) ==
    [steps |-> steps,
     timestamp |-> now,
     stepsSinceLastUpdate |->
         IF steps - last >= 0 THEN Some(steps - last) ELSE Undefined]

\* The StepUpdate the listener closure builds for cumulative count `steps`
\* against baseline `last` (lines 70-78).
StepUpdateOf(steps, last) ==
    [steps |-> steps,
     timestamp |-> now,
     stepsSinceLastUpdate |->
         IF steps - last > 0 THEN Some(steps - last) ELSE Undefined]

\* One external notification with cumulative count c reaches every registered
\* listener, in registration order; each runs the closure of lines 69-79.
RECURSIVE Notify(_, _, _, _)
Notify(ws, h, c, last) ==
    IF h > Len(ws) THEN [calls |-> <<>>, last |-> last]
    ELSE IF ws[h].live
         THEN LET rest == Notify(ws, h + 1, c, c)
              IN  [calls |-> <<[callback |-> ws[h].callback,
                                update |-> StepUpdateOf(c, last)]>> \o rest.calls,
                   last |-> rest.last]
         ELSE Notify(ws, h + 1, c, last)

\* Mutant: startStepCounting starts the new subscription from a zero baseline.
HwStartBaselineReset(last) == 0

\* startStepCounting (lines 62-88) holds no assignment to lastStepCount: the
\* baseline a new subscription starts from is the one the adapter holds.
HwStartBaseline(last) == last

HwStartStepCounting(callback, ro, wo) ==
    /\ kind = "pedometer"
    /\ Len(watchers) < MaxSubs
    /\ subscription = 0 => ro = "ok"
    /\ LET torn == StartTeardown(watchers, subscription, ro)
       IN  IF subscription # 0 /\ RemoveThrows(ro)
           THEN \* remove() threw: the call rejects before watchStepCount
                /\ wo = "ok"
                /\ watchers' = torn
                /\ UNCHANGED <<subscription, lastCallback, restarted>>
                /\ result' = [op |-> "startStepCounting", threw |-> TRUE,
                              callback |-> callback]
           ELSE IF wo = "throw"
           THEN \* watchStepCount threw: the field keeps the old handle
                /\ watchers' = torn
                /\ UNCHANGED <<subscription, lastCallback, restarted>>
                /\ result' = [op |-> "startStepCounting", threw |-> TRUE,
                              callback |-> callback]
           ELSE /\ watchers' = Watch(torn, callback)
                /\ subscription' = Len(torn) + 1
                /\ lastCallback' = callback
                /\ restarted' = (subscription \in LiveWatchers)
                /\ result' = [op |-> "startStepCounting", threw |-> FALSE,
                              callback |-> callback]
    /\ lastStepCount' = HwStartBaseline(lastStepCount)
    /\ terminated' = "none"
    /\ delivered' = <<>>
    /\ UNCHANGED <<kind, resetFrom, now>>
    /\ UNCHANGED mockVars

\* Mutant: the cleanup closure forgets the handle without calling remove().
HwCleanupForgets(ws, sub, ro) ==
    [watchers |-> ws, subscription |-> 0, threw |-> FALSE]

\* Mutant: the cleanup closure removes the handle of the subscription that
\* produced it (here the adapter's first) instead of the one the adapter holds.
HwCleanupOwnHandle(ws, sub, ro) ==
    IF sub # 0
    THEN [watchers |-> Remove(ws, 1, ro),
          subscription |-> IF RemoveThrows(ro) THEN sub ELSE 0,
          threw |-> RemoveThrows(ro)]
    ELSE [watchers |-> ws, subscription |-> sub, threw |-> FALSE]

\* The cleanup closure startStepCounting returns (lines 82-87).
HwCleanupFields(ws, sub, ro) ==
    IF sub # 0
    THEN [watchers |-> Remove(ws, sub, ro),
          subscription |-> IF RemoveThrows(ro) THEN sub ELSE 0,
          threw |-> RemoveThrows(ro)]
    ELSE [watchers |-> ws, subscription |-> sub, threw |-> FALSE]

HwCleanup(ro) ==
    /\ kind = "pedometer"
    /\ lastCallback # "none"
    /\ subscription = 0 => ro = "ok"
    /\ LET f == HwCleanupFields(watchers, subscription, ro)
       IN  /\ watchers' = f.watchers
           /\ subscription' = f.subscription
           /\ result' = [op |-> "cleanup", threw |-> f.threw, again |-> terminated]
           /\ terminated' = IF f.threw THEN terminated ELSE "cleanup"
    /\ delivered' = <<>>
    /\ UNCHANGED <<kind, lastStepCount, lastCallback, restarted, resetFrom, now>>
    /\ UNCHANGED mockVars

\* Mutant: stopStepCounting keeps the delta baseline.
HwStopKeepsBaseline(ws, sub, last, ro) ==
    IF sub # 0 /\ RemoveThrows(ro)
    THEN [watchers |-> Remove(ws, sub, ro), subscription |-> sub,
          lastStepCount |-> last, threw |-> TRUE]
    ELSE [watchers |-> IF sub # 0 THEN Remove(ws, sub, ro) ELSE ws,
          subscription |-> 0, lastStepCount |-> last, threw |-> FALSE]

\* stopStepCounting (lines 93-99).
HwStopFields(ws, sub, last, ro) ==
    IF sub # 0 /\ RemoveThrows(ro)
    THEN [watchers |-> Remove(ws, sub, ro), subscription |-> sub,
          lastStepCount |-> last, threw |-> TRUE]
    ELSE [watchers |-> IF sub # 0 THEN Remove(ws, sub, ro) ELSE ws,
          subscription |-> 0, lastStepCount |-> 0, threw |-> FALSE]

HwStopStepCounting(ro) ==
    /\ kind = "pedometer"
    /\ subscription = 0 => ro = "ok"
    /\ LET f == HwStopFields(watchers, subscription, lastStepCount, ro)
       IN  /\ watchers' = f.watchers
           /\ subscription' = f.subscription
           /\ lastStepCount' = f.lastStepCount
           /\ result' = [op |-> "stopStepCounting", threw |-> f.threw,
                         again |-> terminated]
           /\ terminated' = IF f.threw THEN terminated ELSE "stopStepCounting"
           /\ resetFrom' = IF f.threw \/ resetFrom >= 0 THEN resetFrom
                            ELSE lastStepCount
    /\ delivered' = <<>>
    /\ UNCHANGED <<kind, lastCallback, restarted, now>>
    /\ UNCHANGED mockVars

\* The pedometer reports cumulative count c to its registered listeners.
HwNotification(c) ==
    /\ kind = "pedometer"
    /\ LET n == Notify(watchers, 1, c, lastStepCount)
       IN  /\ delivered' = n.calls
           /\ lastStepCount' = n.last
           /\ resetFrom' = IF n.calls = <<>> THEN resetFrom ELSE -1
    /\ result' = [op |-> "notification", threw |-> FALSE, steps |-> c]
    /\ UNCHANGED <<kind, subscription, watchers, lastCallback, terminated,
                   restarted, now>>
    /\ UNCHANGED mockVars

\* ------------------------------------------------- the runtime's timers
\* setInterval(listener, 3000): a new live timer whose ticks call `callback`.
SetInterval(ts, callback) ==
    Append(ts, [callback |-> callback, live |-> TRUE, last |-> 0])

\* clearInterval(id).
ClearInterval(ts, id) == [ts EXCEPT ![id].live = FALSE]

LiveTimers == {t \in DOMAIN timers : timers[t].live}

\* Math.floor(Math.random() * 5) + 1 (line 54).
MaxNewSteps == 5
NewSteps == 1..MaxNewSteps

\* --------------------------------------------------- MockSensorAdapter
\* stopStepCounting (lines 71-78); the body holds no await, so it runs whole
\* the moment it is called.
MockStopFields(ts, id) ==
    [timers |-> IF id # 0 THEN ClearInterval(ts, id) ELSE ts,
     intervalId |-> 0, isRunning |-> FALSE, currentSteps |-> 0]

\* startStepCounting after its guard (lines 49-65): mark running, zero the
\* total, create the timer and record it.
MockStartFields(ts, callback) ==
    [timers |-> SetInterval(ts, callback),
     intervalId |-> Len(ts) + 1, isRunning |-> TRUE, currentSteps |-> 0]

\* A call of startStepCounting up to its first suspension point: when
\* isRunning it runs stopStepCounting and suspends at the await (line 46),
\* otherwise it runs to its return.
MockStartStepCounting(callback) ==
    /\ kind = "mock"
    /\ Len(timers) + Len(pending) < MaxSubs
    /\ IF isRunning
       THEN LET f == MockStopFields(timers, intervalId)
            IN  /\ timers' = f.timers
                /\ intervalId' = f.intervalId
                /\ isRunning' = f.isRunning
                /\ currentSteps' = f.currentSteps
                /\ pending' = Append(pending, callback)
                /\ result' = [op |-> "startStepCounting:await", threw |-> FALSE,
                              callback |-> callback]
                /\ UNCHANGED <<lastCallback, restarted>>
       ELSE LET f == MockStartFields(timers, callback)
            IN  /\ timers' = f.timers
                /\ intervalId' = f.intervalId
                /\ isRunning' = f.isRunning
                /\ currentSteps' = f.currentSteps
                /\ lastCallback' = callback
                /\ restarted' = FALSE
                /\ result' = [op |-> "startStepCounting", threw |-> FALSE,
                              callback |-> callback]
                /\ UNCHANGED pending
    /\ terminated' = "none"
    /\ delivered' = <<>>
    /\ UNCHANGED <<kind, resetFrom, now>>
    /\ UNCHANGED hwVars

\* The oldest suspended startStepCounting resumes after its await and runs
\* to its return (lines 49-65).
MockStartResume ==
    /\ kind = "mock"
    /\ pending # <<>>
    /\ LET f == MockStartFields(timers, Head(pending))
       IN  /\ timers' = f.timers
           /\ intervalId' = f.intervalId
           /\ isRunning' = f.isRunning
           /\ currentSteps' = f.currentSteps
    /\ lastCallback' = Head(pending)
    /\ restarted' = TRUE
    /\ result' = [op |-> "startStepCounting", threw |-> FALSE,
                  callback |-> Head(pending)]
    /\ pending' = Tail(pending)
    /\ delivered' = <<>>
    /\ UNCHANGED <<kind, terminated, resetFrom, now>>
    /\ UNCHANGED hwVars

\* stopStepCounting called directly (op = "stopStepCounting") or through the
\* closure startStepCounting returned, `() => this.stopStepCounting()`
\* (line 65, op = "cleanup").
MockStop(op) ==
    /\ kind = "mock"
    /\ op = "cleanup" => lastCallback # "none"
    /\ LET f == MockStopFields(timers, intervalId)
       IN  /\ timers' = f.timers
           /\ intervalId' = f.intervalId
           /\ isRunning' = f.isRunning
           /\ currentSteps' = f.currentSteps
    /\ result' = [op |-> op, threw |-> FALSE, again |-> terminated]
    /\ terminated' = op
    /\ resetFrom' = IF op = "stopStepCounting" /\ resetFrom < 0 THEN currentSteps
                     ELSE resetFrom
    /\ delivered' = <<>>
    /\ UNCHANGED <<kind, pending, lastCallback, restarted, now>>
    /\ UNCHANGED hwVars

MockStopStepCounting == MockStop("stopStepCounting")

MockCleanup == MockStop("cleanup")

\* Live timer t fires: the interval listener of lines 52-62. A timer task
\* never runs between a suspended call and its resumption (the resumption
\* is a microtask).
MockTick(t, newSteps) ==
    /\ kind = "mock"
    /\ pending = <<>>
    /\ t \in LiveTimers
    /\ currentSteps + newSteps <= MaxSteps
    /\ currentSteps' = currentSteps + newSteps
    /\ delivered' = <<[callback |-> timers[t].callback,
                       update |-> [steps |-> currentSteps + newSteps,
                                   timestamp |-> now,
                                   stepsSinceLastUpdate |-> Some(newSteps)]]>>
    /\ timers' = [timers EXCEPT ![t].last = currentSteps + newSteps]
    /\ result' = [op |-> "tick", threw |-> FALSE, timer |-> t,
                  previous |-> timers[t].last]
    /\ resetFrom' = -1
    /\ UNCHANGED <<kind, intervalId, isRunning, pending, lastCallback,
                   terminated, restarted, now>>
    /\ UNCHANGED hwVars

\* ------------------------------------------------------ specifications
InitFields ==
    /\ subscription = 0
    /\ lastStepCount = 0
    /\ watchers = <<>>
    /\ intervalId = 0
    /\ currentSteps = 0
    /\ isRunning = FALSE
    /\ timers = <<>>
    /\ pending = <<>>
    /\ delivered = <<>>
    /\ lastCallback = "none"
    /\ terminated = "none"
    /\ restarted = FALSE
    /\ resetFrom = -1

InitAdapter ==
    /\ InitFields
    /\ result = [op |-> "new", threw |-> FALSE]

\* The adapter is driven directly, not through useStepCounter.
NoHook == [mounted |-> FALSE]

Init ==
    /\ kind \in {"pedometer", "mock"}
    /\ now = Epoch
    /\ InitAdapter
    /\ hook = NoHook

\* No call is in flight: the caller awaits each call before the next.
Idle == pending = <<>>

Next ==
    \/ \E cb \in Callbacks, ro \in RemoveOutcomes, wo \in WatchOutcomes :
           HwStartStepCounting(cb, ro, wo) /\ UNCHANGED hook
    \/ \E ro \in RemoveOutcomes : HwCleanup(ro) /\ UNCHANGED hook
    \/ \E ro \in RemoveOutcomes : HwStopStepCounting(ro) /\ UNCHANGED hook
    \/ \E c \in 0..MaxSteps : HwNotification(c) /\ UNCHANGED hook
    \/ \E cb \in Callbacks : Idle /\ MockStartStepCounting(cb) /\ UNCHANGED hook
    \/ MockStartResume /\ UNCHANGED hook
    \/ Idle /\ MockStopStepCounting /\ UNCHANGED hook
    \/ Idle /\ MockCleanup /\ UNCHANGED hook
    \/ \E t \in DOMAIN timers, n \in NewSteps : MockTick(t, n) /\ UNCHANGED hook

Spec == Init /\ [][Next]_vars

InitConcurrent ==
    /\ kind = "mock"
    /\ now = Epoch
    /\ InitAdapter
    /\ hook = NoHook

NextConcurrent ==
    \/ \E cb \in Callbacks : MockStartStepCounting(cb) /\ UNCHANGED hook
    \/ MockStartResume /\ UNCHANGED hook
    \/ MockStopStepCounting /\ UNCHANGED hook
    \/ MockCleanup /\ UNCHANGED hook
    \/ \E t \in DOMAIN timers, n \in NewSteps : MockTick(t, n) /\ UNCHANGED hook

SpecConcurrent == InitConcurrent /\ [][NextConcurrent]_vars

\* ------------------------------------------------- lifecycle properties
\* The callbacks of the listeners or timers that would fire now.
LiveCallbacks ==
    IF kind = "pedometer" THEN {watchers[h].callback : h \in LiveWatchers}
    ELSE {timers[t].callback : t \in LiveTimers}

LiveCount ==
    IF kind = "pedometer" THEN Cardinality(LiveWatchers)
    ELSE Cardinality(LiveTimers)

\* C1: with calls awaited one after another, at most one external listener
\* (hardware) or interval timer (simulation) is live; a startStepCounting that
\* returned leaves exactly one, bound to the callback it was given, also when
\* it replaced an active subscription; one external notification or timer
\* period then makes exactly one callback invocation, to the callback most
\* recently supplied.
C1_SingleSubscription ==
    /\ LiveCount <= 1
    /\ (result.op = "startStepCounting" /\ ~result.threw) =>
           /\ LiveCount = 1
           /\ LiveCallbacks = {result.callback}
           /\ lastCallback = result.callback
    /\ result.op \in {"notification", "tick"} =>
           /\ Len(delivered) = LiveCount
           /\ \A i \in DOMAIN delivered : delivered[i].callback = lastCallback

\* startStepCounting was called with callback B while the subscription made
\* for a different callback was active, and an external notification was then
\* delivered.
C1_Witness ==
    /\ kind = "pedometer"
    /\ restarted
    /\ result.op = "notification"
    /\ Len(delivered) = 1
    /\ Len(watchers) >= 2
    /\ \E h \in DOMAIN watchers : watchers[h].callback # lastCallback

CleanupStep == (\E ro \in RemoveOutcomes : HwCleanup(ro)) \/ MockCleanup

adapterVars == <<subscription, lastStepCount, intervalId, currentSteps, isRunning>>

\* C2: once a cleanup function (or stopStepCounting) has returned and no
\* startStepCounting has been called since, no listener or timer is live and
\* no external notification invokes a callback; invoking the cleanup function
\* then (a second time, or after stopStepCounting) changes no adapter field,
\* makes no external call and raises no error.
C2_TerminatedStaysQuiet ==
    terminated # "none" =>
        /\ LiveCount = 0
        /\ delivered = <<>>

C2_CleanupAgainIsNoOp ==
    (terminated # "none" /\ CleanupStep) =>
        /\ UNCHANGED adapterVars
        /\ UNCHANGED <<watchers, timers>>
        /\ ~result'.threw

C2_CleanupIdempotent == []C2_TerminatedStaysQuiet /\ [][C2_CleanupAgainIsNoOp]_vars

\* The pedometer reported a positive count after the cleanup function of a
\* subscription had been invoked: nothing was delivered.
C2_Witness ==
    /\ kind = "pedometer"
    /\ terminated = "cleanup"
    /\ result.op = "notification"
    /\ result.steps > 0
    /\ watchers # <<>>

StopStep == (\E ro \in RemoveOutcomes : HwStopStepCounting(ro)) \/ MockStopStepCounting

\* C3: after stopStepCounting returns the adapter holds no subscription, no
\* listener or timer is live and the delta-tracking state is 0; called with no
\* subscription held it makes no external call and raises no error; and the
\* first update delivered after a later startStepCounting carries the delta
\* against 0 (stepsSinceLastUpdate = steps), not against the count the earlier
\* subscription saw last.
C3_StoppedState ==
    /\ (result.op = "stopStepCounting" /\ ~result.threw) =>
           /\ subscription = 0 /\ lastStepCount = 0
           /\ intervalId = 0 /\ ~isRunning /\ currentSteps = 0
           /\ LiveCount = 0
    /\ resetFrom >= 0 => lastStepCount = 0 /\ currentSteps = 0

C3_StopSteps ==
    /\ (subscription = 0 /\ intervalId = 0 /\ StopStep) =>
           /\ ~result'.threw
           /\ UNCHANGED <<watchers, timers, subscription, intervalId>>
    /\ (resetFrom >= 0 /\ delivered' # <<>>) =>
           LET u == delivered'[1].update
           IN  u.stepsSinceLastUpdate =
                   IF u.steps > 0 THEN Some(u.steps) ELSE Undefined

C3_StopResets == []C3_StoppedState /\ [][C3_StopSteps]_vars

\* stopStepCounting discarded a positive baseline and a later
\* startStepCounting has subscribed again: the baseline is 0.
C3_Witness ==
    /\ kind = "pedometer"
    /\ resetFrom > 0
    /\ result.op = "startStepCounting"
    /\ ~result.threw
    /\ LiveCount = 1

\* C4: in the simulation adapter, whatever the interleaving of
\* startStepCounting and stopStepCounting calls, every live interval timer is
\* the one recorded in intervalId (so at most one is live and
\* stopStepCounting can clear it).
C4_LiveTimerIsRecorded == \A t \in LiveTimers : t = intervalId

\* C5: no operation of the hardware adapter throws or rejects, whichever
\* external call fails.
C5_NeverThrows == kind = "pedometer" => ~result.threw

\* ------------------------------------------------------------- calendar
\* The runtime's Date, in local time, in a zone without clock changes. Months
\* are 0-based as in JavaScript.
CalendarBase == [year |-> 2023, weekday |-> 0]   \* 1 January 2023, a Sunday

MsPerDay == 24 * MsPerHour

IsLeapYear(y) == (y % 4 = 0 /\ y % 100 # 0) \/ y % 400 = 0

DaysInMonth(y, m) ==
    IF m = 1 THEN (IF IsLeapYear(y) THEN 29 ELSE 28)
    ELSE IF m \in {3, 5, 8, 10} THEN 30 ELSE 31

\* Day-of-month overflow and underflow carried into the month and year, as
\* the Date constructor and setters do.
RECURSIVE NormalizeDay(_, _, _)
NormalizeDay(y, m, d) ==
    IF d < 1
    THEN LET py == IF m = 0 THEN y - 1 ELSE y
             pm == IF m = 0 THEN 11 ELSE m - 1
         IN  NormalizeDay(py, pm, d + DaysInMonth(py, pm))
    ELSE IF d > DaysInMonth(y, m)
    THEN NormalizeDay(IF m = 11 THEN y + 1 ELSE y, IF m = 11 THEN 0 ELSE m + 1,
                      d - DaysInMonth(y, m))
    ELSE [y |-> y, m |-> m, d |-> d]

\* new Date(y, m, d, 0, 0, 0, ms)
MakeDate(y, m, d, ms) ==
    LET n == NormalizeDay(y, m, d)
    IN  [y |-> n.y, m |-> n.m, d |-> n.d, ms |-> ms]

\* date.setDate(d)
SetDate(date, d) == MakeDate(date.y, date.m, d, date.ms)

\* date.setHours(h, min, sec, ms)
SetHours(date, h, min, sec, ms) ==
    MakeDate(date.y, date.m, date.d + (h \div 24),
             (((h % 24) * 60 + min) * 60 + sec) * 1000 + ms)

\* new Date(date.getFullYear(), date.getMonth(), date.getDate(), h, min, sec)
AtTime(date, h, min, sec) == SetHours(MakeDate(date.y, date.m, date.d, 0), h, min, sec, 0)

GetHours(date) == date.ms \div MsPerHour

RECURSIVE DaysBeforeMonth(_, _)
DaysBeforeMonth(y, m) ==
    IF m = 0 THEN 0 ELSE DaysBeforeMonth(y, m - 1) + DaysInMonth(y, m - 1)

RECURSIVE DaysBeforeYear(_)
DaysBeforeYear(y) ==
    IF y <= CalendarBase.year THEN 0
    ELSE DaysBeforeYear(y - 1) + (IF IsLeapYear(y - 1) THEN 366 ELSE 365)

DayNumber(date) ==
    DaysBeforeYear(date.y) + DaysBeforeMonth(date.y, date.m) + date.d - 1

\* date.getTime(): milliseconds since the calendar base, kept as whole days and
\* the millisecond of the day.
GetTime(date) == [day |-> DayNumber(date), ms |-> date.ms]

\* a.getTime() - b.getTime()
TimeDiff(a, b) == (DayNumber(a) - DayNumber(b)) * MsPerDay + (a.ms - b.ms)

\* date.getDay(): 0 is Sunday
GetDay(date) == (DayNumber(date) + CalendarBase.weekday) % 7

Abs(n) == IF n < 0 THEN -n ELSE n

Max(a, b) == IF a >= b THEN a ELSE b

RECURSIVE Reverse(_)
Reverse(seq) ==
    IF seq = <<>> THEN <<>> ELSE Append(Reverse(Tail(seq)), Head(seq))

\* ------------------------------------------------------- StepCalculator
\* Lengths are in centimetres, distances in hundredths of a kilometre.
DEFAULT_STRIDE_LENGTH == 76
DEFAULT_WEIGHT_KG == 70
DEFAULT_STEPS_PER_MINUTE == 120
CALORIES_PER_1000_STEPS == 45

\* The step counts up to 40000 at which, with the default stride, the double
\* steps * 0.76 / 1000 lies just below a half hundredth that the exact product
\* reaches, so that toFixed(2) gives one hundredth less.
DistanceTieDown ==
    {375, 625, 1125, 1375, 2125, 2375, 3375, 3625, 3875, 4125, 5375, 5875,
     6375, 6875, 7625, 8125, 8625, 9125, 9875, 10375, 10625, 11375, 12125,
     12375, 13125, 13375, 13875, 14125, 14875, 15125, 15875, 16625, 16875,
     17625, 18375, 18625, 19375, 19625, 20125, 20375, 21125, 21625, 22375,
     23125, 23625, 23875, 24375, 24625, 25125, 25875, 26625, 27125, 27375,
     27875, 28625, 29375, 29875, 30125, 30625, 30875, 31375, 32125, 32875,
     33375, 33625, 34125, 34875, 35625, 36125, 36375, 36875, 37125, 37625,
     38375, 39125, 39625, 39875}

\* The step counts up to 40000 at which, with the default weight, the double
\* (steps / 1000) * 45 * 1 lies just below the integer the exact product
\* equals, so that Math.floor gives one less.
CaloriesFloatShort ==
    {1400, 2800, 4600, 5600, 8200, 9200, 10200, 11200, 16400, 17400, 18400,
     19400, 20400, 21400, 22400, 32800, 33800, 34800, 35800, 36800, 37800,
     38800, 39800}

\* The same for strides of 0.50 m and 1.00 m, step counts up to 2000.
DistanceTieDownStride50 ==
    {30, 90, 150, 210, 290, 310, 350, 370, 410, 430, 470, 490, 570, 590, 610,
     690, 710, 730, 830, 850, 870, 950, 970, 990, 1130, 1150, 1170, 1190,
     1210, 1230, 1390, 1410, 1430, 1450, 1470, 1490, 1630, 1650, 1670, 1690,
     1710, 1730, 1890, 1910, 1930, 1950, 1970, 1990}

DistanceTieDownStride100 ==
    {15, 45, 75, 105, 145, 155, 175, 185, 205, 215, 235, 245, 285, 295, 305,
     345, 355, 365, 415, 425, 435, 475, 485, 495, 565, 575, 585, 595, 605,
     615, 695, 705, 715, 725, 735, 745, 815, 825, 835, 845, 855, 865, 945,
     955, 965, 975, 985, 995, 1005, 1015, 1025, 1035, 1045, 1055, 1065, 1075,
     1085, 1095, 1105, 1115, 1255, 1265, 1275, 1285, 1295, 1305, 1315, 1325,
     1335, 1345, 1355, 1365, 1505, 1515, 1525, 1535, 1545, 1555, 1565, 1575,
     1585, 1595, 1605, 1615, 1755, 1765, 1775, 1785, 1795, 1805, 1815, 1825,
     1835, 1845, 1855, 1865}

\* The same for weights of 35 kg and 140 kg, step counts up to 10000.
CaloriesFloatShortWeight35 == {2800, 5600, 9200}

CaloriesFloatShortWeight140 ==
    {700, 1400, 2300, 2800, 4100, 4600, 5100, 5600, 8200, 8700, 9200, 9700}

\* The stride lengths (hundredths of a metre) and weights (kg) the
\* calculator is given.
Strides == {50, DEFAULT_STRIDE_LENGTH, 100}
Weights == {35, DEFAULT_WEIGHT_KG, 140}

DistanceTieDownAt(strideLength) ==
    IF strideLength = DEFAULT_STRIDE_LENGTH THEN DistanceTieDown
    ELSE IF strideLength = 50 THEN DistanceTieDownStride50
    ELSE DistanceTieDownStride100

CaloriesFloatShortAt(weightKg) ==
    IF weightKg = DEFAULT_WEIGHT_KG THEN CaloriesFloatShort
    ELSE IF weightKg = 35 THEN CaloriesFloatShortWeight35
    ELSE CaloriesFloatShortWeight140

\* calculateDistance (lines 35-39): parseFloat((steps * stride / 1000).toFixed(2));
\* toFixed rounds the magnitude half up.
calculateDistance(steps, strideLength) ==
    LET magnitude == Abs(steps * strideLength)
        rounded == (magnitude + 500) \div 1000
        fixed == IF Abs(steps) \in DistanceTieDownAt(strideLength)
                 THEN rounded - 1 ELSE rounded
    IN  IF steps < 0 THEN -fixed ELSE fixed

\* calculateCalories (lines 45-51)
calculateCalories(steps, weightKg) ==
    LET exact == (steps * CALORIES_PER_1000_STEPS * weightKg)
                     \div (1000 * DEFAULT_WEIGHT_KG)
    IN  IF steps \in CaloriesFloatShortAt(weightKg)
        THEN exact - 1 ELSE exact

\* calculateActiveMinutes (lines 57-59)
calculateActiveMinutes(steps, stepsPerMinute) == steps \div stepsPerMinute

\* The smallest integer that is at least a / b, for b > 0.
Ceil(a, b) == -((-a) \div b)

\* stepsForDistance (lines 64-67), the distance in hundredths of a kilometre:
\* Math.ceil(distanceKm * 1000 / strideLength). For the default stride and
\* goals up to 31 km the double quotient has the exact quotient's ceiling.
stepsForDistance(distanceKm, strideLength) == Ceil(distanceKm * 1000, strideLength)

\* The calorie goals up to 4000 at which, for weights 35, 70 and 140 kg,
\* the double (calories / 45 / weightFactor) * 1000 lies just above the
\* integer the exact quotient equals, so that Math.ceil gives one more.
StepsForCaloriesFloatOver == {1449, 2898, 2943}

\* stepsForCalories (lines 72-76)
stepsForCalories(calories, weightKg) ==
    LET exact == Ceil(calories * 1000 * DEFAULT_WEIGHT_KG,
                      CALORIES_PER_1000_STEPS * weightKg)
    IN  IF calories \in StepsForCaloriesFloatOver THEN exact + 1 ELSE exact

\* Mutant: the pace without the guard on minutes.
calculatePaceUnguarded(steps, minutes) ==
    IF minutes = 0 THEN steps ELSE steps \div minutes

\* calculatePace (lines 82-85)
calculatePace(steps, minutes) ==
    IF minutes = 0 THEN 0 ELSE steps \div minutes

\* Mutant: the calories are computed from a different step count.
DerivedFieldsMixed(steps) ==
    [distance |-> calculateDistance(steps, DEFAULT_STRIDE_LENGTH),
     calories |-> calculateCalories(steps + 1000, DEFAULT_WEIGHT_KG),
     activeMinutes |-> calculateActiveMinutes(steps, DEFAULT_STEPS_PER_MINUTE)]

\* The derived fields as both adapters fill them in, with the defaults.
DerivedFields(steps) ==
    [distance |-> calculateDistance(steps, DEFAULT_STRIDE_LENGTH),
     calories |-> calculateCalories(steps, DEFAULT_WEIGHT_KG),
     activeMinutes |-> calculateActiveMinutes(steps, DEFAULT_STEPS_PER_MINUTE)]

\* --------------------------------------------- external pedometer queries
\* What Pedometer.isAvailableAsync() does: it resolves to a boolean, or it
\* rejects with an Error (whose message may be empty) or with another value.
ProbeOutcomes ==
    {[kind |-> "returns", value |-> TRUE, isError |-> FALSE, message |-> ""],
     [kind |-> "returns", value |-> FALSE, isError |-> FALSE, message |-> ""],
     [kind |-> "throws", value |-> FALSE, isError |-> TRUE, message |-> "sensor failure"],
     [kind |-> "throws", value |-> FALSE, isError |-> TRUE, message |-> ""],
     [kind |-> "throws", value |-> FALSE, isError |-> FALSE, message |-> ""]}

NoProbe == [kind |-> "none", value |-> FALSE, isError |-> FALSE, message |-> ""]

\* What Pedometer.getStepCountAsync(start, end) does: it resolves to
\* {steps: n}, resolves to nothing, or rejects.
Steps(n) == [kind |-> "steps", steps |-> n]
Absent == [kind |-> "absent", steps |-> 0]
Throws == [kind |-> "throw", steps |-> 0]

QueryOutcomes == {Throws, Absent} \cup {Steps(n) : n \in {0, 1, 1400, 9999, 10000, 12345}}

\* The pedometer during one getHistoricalSteps call: what it has recorded, and
\* which day query and which hour query of iteration faultDay fail, and how.
Faults == {"none", "throw", "absent"}
FaultHours == {0, 7, 23}

Worlds ==
    [dayFault : Faults, hourFault : Faults, faultDay : 0..(MaxDays - 1),
     faultHour : FaultHours]

Fault(mode) == IF mode = "throw" THEN Throws ELSE Absent

\* Steps the pedometer has recorded for a whole day and for one of its hours.
RecordedDaySteps(date) == 9000 + 500 * GetDay(date)
RecordedHourSteps(date, hour) == 10 * hour + GetDay(date)

DayQuery(w, i, date) ==
    IF w.dayFault # "none" /\ i = w.faultDay THEN Fault(w.dayFault)
    ELSE Steps(RecordedDaySteps(date))

HourQuery(w, i, date, hour) ==
    IF w.hourFault # "none" /\ i = w.faultDay /\ hour = w.faultHour
    THEN Fault(w.hourFault)
    ELSE Steps(RecordedHourSteps(date, hour))

\* ------------------------------------------ ExpoPedometerAdapter queries
\* `${startDate.getTime()}-${endDate.getTime()}` and the mock's prefixed forms:
\* the literal parts and the rendered numbers, in order.
TemplateId(prefix, times) == <<prefix>> \o times

\* isAvailable (lines 21-35) when the probe ends with outcome p.
HwIsAvailableValue(p) ==
    IF p.kind = "returns"
    THEN [isAvailable |-> p.value,
          sensorType |-> IF p.value THEN Some("pedometer") ELSE Undefined,
          error |-> IF p.value THEN Undefined
                    ELSE Some("Pedometer not available on this device")]
    ELSE [isAvailable |-> FALSE,
          sensorType |-> Undefined,
          error |-> Some(IF p.isError THEN p.message ELSE "Unknown error")]

Denied == [granted |-> FALSE, canAskAgain |-> FALSE, status |-> "denied"]
Granted == [granted |-> TRUE, canAskAgain |-> TRUE, status |-> "granted"]

\* Mutant: an unavailable sensor is reported as a denial that may be retried.
HwRequestPermissionsRetryable(p) ==
    IF ~HwIsAvailableValue(p).isAvailable
    THEN [granted |-> FALSE, canAskAgain |-> TRUE, status |-> "denied"]
    ELSE Granted

\* Mutant: the permission is granted without asking isAvailable().
HwRequestPermissionsUnchecked(p) == Granted

\* requestPermissions (lines 41-57): one isAvailable() call, then the answer.
HwRequestPermissionsValue(p) ==
    IF ~HwIsAvailableValue(p).isAvailable THEN Denied ELSE Granted

\* `result?.steps ?? 0` (line 107)
HwStepsOf(q) == IF q.kind = "absent" THEN 0 ELSE q.steps

\* Mutant: the record of a failed query carries the interval reversed.
HwQueryFailedSwapped(startDate, endDate) ==
    [id |-> TemplateId("", <<GetTime(startDate), GetTime(endDate)>>),
     steps |-> 0, distance |-> 0, calories |-> 0, activeMinutes |-> 0,
     startDate |-> endDate, endDate |-> startDate, source |-> "pedometer"]

\* The record getStepCount's catch block returns (lines 120-129).
HwQueryFailedValue(startDate, endDate) ==
    [id |-> TemplateId("", <<GetTime(startDate), GetTime(endDate)>>),
     steps |-> 0, distance |-> 0, calories |-> 0, activeMinutes |-> 0,
     startDate |-> startDate, endDate |-> endDate, source |-> "pedometer"]

\* getStepCount (lines 104-131) when the range query ends with outcome q.
HwGetStepCountValue(startDate, endDate, q) ==
    IF q.kind = "throw"
    THEN HwQueryFailedValue(startDate, endDate)
    ELSE LET steps == HwStepsOf(q)
             derived == DerivedFields(steps)
         IN  [id |-> TemplateId("", <<GetTime(startDate), GetTime(endDate)>>),
              steps |-> steps,
              distance |-> derived.distance,
              calories |-> derived.calories,
              activeMinutes |-> derived.activeMinutes,
              startDate |-> startDate, endDate |-> endDate,
              source |-> "pedometer"]

HoursPerDay == 24
GoalTarget == 10000

\* Mutant: the hours are taken as 1..24.
HourRangeOneBased(startOfDay, hour) ==
    [start |-> SetHours(startOfDay, hour + 1, 0, 0, 0),
     end |-> SetHours(startOfDay, hour + 1, 59, 59, 999)]

\* hourStart and hourEnd of one iteration (lines 184-188).
HourRange(startOfDay, hour) ==
    [start |-> SetHours(startOfDay, hour, 0, 0, 0),
     end |-> SetHours(startOfDay, hour, 59, 59, 999)]

\* The ranges getHourlyBreakdown gives to Pedometer.getStepCountAsync, in the
\* order of the calls (lines 183-191): each call is awaited before the next.
RECURSIVE HwHourlyCalls(_, _, _)
HwHourlyCalls(hour, startOfDay, issued) ==
    IF hour < HoursPerDay
    THEN HwHourlyCalls(hour + 1, startOfDay, Append(issued, HourRange(startOfDay, hour)))
    ELSE issued

\* getHourlyBreakdown (lines 180-207): one query per hour, in hour order; a
\* query that rejects gives 0 for its hour.
RECURSIVE HwHourlyLoop(_, _, _, _, _)
HwHourlyLoop(hour, w, i, startOfDay, hourlyData) ==
    IF hour < HoursPerDay
    THEN LET hourStart == HourRange(startOfDay, hour).start
             q == HourQuery(w, i, hourStart, hour)
             entry == [hour |-> hour,
                       steps |-> IF q.kind = "throw" THEN 0 ELSE HwStepsOf(q),
                       timestamp |-> hourStart]
         IN  HwHourlyLoop(hour + 1, w, i, startOfDay, Append(hourlyData, entry))
    ELSE hourlyData

\* Mutant: the goal counts as met only when exceeded (`>` for `>=`).
DailyStepDataExceeds(dayData, hourlyData, goalTarget) ==
    [id |-> dayData.id, steps |-> dayData.steps, distance |-> dayData.distance,
     calories |-> dayData.calories, activeMinutes |-> dayData.activeMinutes,
     startDate |-> dayData.startDate, endDate |-> dayData.endDate,
     source |-> dayData.source,
     hourlyData |-> hourlyData,
     goalMet |-> dayData.steps > goalTarget,
     goalTarget |-> goalTarget]

\* With the fields of a StepData, the three a DailyStepData adds.
DailyStepData(dayData, hourlyData, goalTarget) ==
    [id |-> dayData.id, steps |-> dayData.steps, distance |-> dayData.distance,
     calories |-> dayData.calories, activeMinutes |-> dayData.activeMinutes,
     startDate |-> dayData.startDate, endDate |-> dayData.endDate,
     source |-> dayData.source,
     hourlyData |-> hourlyData,
     goalMet |-> dayData.steps >= goalTarget,
     goalTarget |-> goalTarget]

\* One iteration of getHistoricalSteps' loop (lines 152-169).
HwDay(today, i, w) ==
    LET date == SetDate(today, today.d - i)
        startOfDay == AtTime(date, 0, 0, 0)
        endOfDay == AtTime(date, 23, 59, 59)
        dayData == HwGetStepCountValue(startOfDay, endOfDay, DayQuery(w, i, startOfDay))
        hourlyData == HwHourlyLoop(0, w, i, startOfDay, <<>>)
    IN  DailyStepData(dayData, hourlyData, GoalTarget)

RECURSIVE HwHistoryLoop(_, _, _, _, _)
HwHistoryLoop(i, days, today, w, historicalData) ==
    IF i < days
    THEN HwHistoryLoop(i + 1, days, today, w, Append(historicalData, HwDay(today, i, w)))
    ELSE historicalData

\* Mutant: the accumulated days are returned newest first.
NewestFirst(historicalData) == historicalData

\* `historicalData.reverse()` (hardware line 172, simulation line 163)
OldestFirst(historicalData) == Reverse(historicalData)

\* getHistoricalSteps (lines 147-173)
HwGetHistoricalStepsValue(days, today, w) ==
    OldestFirst(HwHistoryLoop(0, days, today, w, <<>>))

\* ---------------------------------------------- MockSensorAdapter queries
\* Math.random(), in thousandths.
RandomSamples == {0, 545, 600, 999}

\* Math.floor(Math.random() * n)
RandomBelow(r, n) == (r * n) \div 1000

StepsPerHour == 400
MaxVariation == 100

\* getStepCount (lines 83-100) when Math.random() gives r.
MockGetStepCountValue(startDate, endDate, r) ==
    LET baseSteps == Abs(TimeDiff(endDate, startDate)) \div (MsPerHour \div StepsPerHour)
        variation == RandomBelow(r, 2 * MaxVariation) - MaxVariation
        steps == Max(0, baseSteps + variation)
        derived == DerivedFields(steps)
    IN  [id |-> TemplateId("mock", <<GetTime(startDate), GetTime(endDate)>>),
         steps |-> steps,
         distance |-> derived.distance,
         calories |-> derived.calories,
         activeMinutes |-> derived.activeMinutes,
         startDate |-> startDate, endDate |-> endDate, source |-> "mock"]

\* generateRealisticDailySteps' table (lines 171-180), hour h at index h + 1.
stepsPerHour ==
    <<100, 100, 50, 50, 50, 200,
      800, 1200,
      1500, 1200, 800, 600,
      1000,
      500, 400, 400, 500,
      1200, 1500,
      800, 600, 400, 200,
      100, 100>>

\* generateRealisticDailySteps (lines 169-188)
RECURSIVE DailyStepsLoop(_, _, _)
DailyStepsLoop(hour, currentHour, totalSteps) ==
    IF hour <= currentHour /\ hour < HoursPerDay
    THEN DailyStepsLoop(hour + 1, currentHour,
                        totalSteps + (IF hour + 1 \in DOMAIN stepsPerHour
                                      THEN stepsPerHour[hour + 1] ELSE 0))
    ELSE totalSteps

\* Mutant: the current hour is left out (`<` for `<=`).
generateRealisticDailyStepsExclusive(currentHour) ==
    DailyStepsLoop(0, currentHour - 1, 0)

generateRealisticDailySteps(currentHour) == DailyStepsLoop(0, currentHour, 0)

\* getTodaySteps (lines 105-123)
MockGetTodayStepsValue(today) ==
    LET steps == generateRealisticDailySteps(GetHours(today))
        derived == DerivedFields(steps)
    IN  [id |-> TemplateId("mock-today", <<GetTime(today)>>),
         steps |-> steps,
         distance |-> derived.distance,
         calories |-> derived.calories,
         activeMinutes |-> derived.activeMinutes,
         startDate |-> AtTime(today, 0, 0, 0), endDate |-> today,
         source |-> "mock"]

\* generateHourlyData's weights (lines 194-203), in hundredths, hour h at
\* index h + 1.
distribution ==
    <<1, 1, 1, 1, 1, 2,
      8, 12,
      15, 12, 8, 6,
      10,
      5, 4, 4, 5,
      12, 15,
      8, 6, 4, 2,
      1, 1>>

\* generateHourlyData (lines 193-210): one entry per weight, its index as hour.
generateHourlyData(totalSteps, today) ==
    [k \in DOMAIN distribution |->
        [hour |-> k - 1,
         steps |-> (totalSteps * distribution[k]) \div 100,
         timestamp |-> SetHours(today, k - 1, 0, 0, 0)]]

\* One iteration of getHistoricalSteps' loop (lines 133-160), Math.random()
\* giving r.
MockDay(today, i, r) ==
    LET date == SetDate(today, today.d - i)
        isWeekend == GetDay(date) = 0 \/ GetDay(date) = 6
        steps == IF isWeekend THEN RandomBelow(r, 11000) + 4000
                 ELSE RandomBelow(r, 5000) + 7000
        derived == DerivedFields(steps)
    IN  [id |-> TemplateId("mock", <<GetTime(date)>>),
         steps |-> steps,
         distance |-> derived.distance,
         calories |-> derived.calories,
         activeMinutes |-> derived.activeMinutes,
         startDate |-> AtTime(date, 0, 0, 0),
         endDate |-> AtTime(date, 23, 59, 59),
         source |-> "mock",
         hourlyData |-> generateHourlyData(steps, today),
         goalMet |-> steps >= GoalTarget,
         goalTarget |-> GoalTarget]

RECURSIVE MockHistoryLoop(_, _, _, _, _)
MockHistoryLoop(i, days, today, draws, historicalData) ==
    IF i < days
    THEN MockHistoryLoop(i + 1, days, today, draws,
                         Append(historicalData, MockDay(today, i, draws[i])))
    ELSE historicalData

\* getHistoricalSteps (lines 128-164)
MockGetHistoricalStepsValue(days, today, draws) ==
    OldestFirst(MockHistoryLoop(0, days, today, draws, <<>>))

\* ------------------------------------------------------ query operations
\* Each operation leaves the adapter's fields alone and returns a value.
Returns(op, value, args, external) ==
    /\ result' = [op |-> op, threw |-> FALSE, value |-> value, args |-> args,
                  external |-> external]
    /\ UNCHANGED <<kind, now, delivered, lastCallback, terminated, restarted,
                   resetFrom, hook>>
    /\ UNCHANGED hwVars
    /\ UNCHANGED mockVars

NoArgs == <<>>

HwIsAvailable(p) ==
    /\ kind = "pedometer"
    /\ Returns("isAvailable", HwIsAvailableValue(p), NoArgs, [probes |-> <<p>>])

HwRequestPermissions(p) ==
    /\ kind = "pedometer"
    /\ Returns("requestPermissions", HwRequestPermissionsValue(p), NoArgs,
               [probes |-> <<p>>])

HwGetStepCount(startDate, endDate, q) ==
    /\ kind = "pedometer"
    /\ Returns("getStepCount", HwGetStepCountValue(startDate, endDate, q),
               [startDate |-> startDate, endDate |-> endDate], [query |-> q])

\* getTodaySteps (lines 136-142)
HwGetTodaySteps(q) ==
    /\ kind = "pedometer"
    /\ Returns("getTodaySteps", HwGetStepCountValue(AtTime(now, 0, 0, 0), now, q),
               NoArgs, [query |-> q])

HwGetHistoricalSteps(days, w) ==
    /\ kind = "pedometer"
    /\ Returns("getHistoricalSteps", HwGetHistoricalStepsValue(days, now, w),
               [days |-> days], [world |-> w])

\* isAvailable (lines 22-27)
MockIsAvailable ==
    /\ kind = "mock"
    /\ Returns("isAvailable",
               [isAvailable |-> TRUE, sensorType |-> Some("pedometer"),
                error |-> Undefined],
               NoArgs, [probes |-> <<>>])

\* requestPermissions (lines 32-38)
MockRequestPermissions ==
    /\ kind = "mock"
    /\ Returns("requestPermissions", Granted, NoArgs, [probes |-> <<>>])

MockGetStepCount(startDate, endDate, r) ==
    /\ kind = "mock"
    /\ Returns("getStepCount", MockGetStepCountValue(startDate, endDate, r),
               [startDate |-> startDate, endDate |-> endDate], [random |-> r])

MockGetTodaySteps ==
    /\ kind = "mock"
    /\ Returns("getTodaySteps", MockGetTodayStepsValue(now), NoArgs, [random |-> 0])

MockGetHistoricalSteps(days, draws) ==
    /\ kind = "mock"
    /\ Returns("getHistoricalSteps", MockGetHistoricalStepsValue(days, now, draws),
               [days |-> days], [random |-> draws])

\* The instants at which the operations are called.
Today(y, m, d) == [y |-> y, m |-> m, d |-> d, ms |-> 0]

CallDays ==
    {Today(2024, 0, 1), Today(2024, 0, 2), Today(2024, 2, 1), Today(2024, 2, 2),
     Today(2023, 2, 1), Today(2024, 5, 15), Today(2024, 11, 31)}

CallTimes == {SetHours(day, h, 30, 15, 250) : day \in CallDays, h \in {0, 10, 23}}

\* The interval endpoints given to getStepCount.
Endpoints ==
    {AtTime(now, 0, 0, 0), now, AtTime(now, 23, 59, 59), SetDate(now, now.d - 1)}

DaysArguments == (-1)..MaxDays

InitQuery ==
    /\ kind \in {"pedometer", "mock"}
    /\ now \in CallTimes
    /\ InitAdapter
    /\ hook = NoHook

\* A query reads no adapter field and writes none, so what it returns after
\* other operations is what it returns on the adapter as constructed: the
\* queries are explored from there.
Fresh == result.op = "new"

NextQuery ==
    \/ \E p \in ProbeOutcomes : Fresh /\ HwIsAvailable(p)
    \/ \E p \in ProbeOutcomes : Fresh /\ HwRequestPermissions(p)
    \/ \E a \in Endpoints, b \in Endpoints, q \in QueryOutcomes :
           Fresh /\ HwGetStepCount(a, b, q)
    \/ \E q \in QueryOutcomes : Fresh /\ HwGetTodaySteps(q)
    \/ \E days \in DaysArguments, w \in Worlds : Fresh /\ HwGetHistoricalSteps(days, w)
    \/ Fresh /\ MockIsAvailable
    \/ Fresh /\ MockRequestPermissions
    \/ \E a \in Endpoints, b \in Endpoints, r \in RandomSamples :
           Fresh /\ MockGetStepCount(a, b, r)
    \/ Fresh /\ MockGetTodaySteps
    \/ \E days \in DaysArguments :
           \E draws \in [0..(days - 1) -> RandomSamples] :
               Fresh /\ MockGetHistoricalSteps(days, draws)

SpecQuery == InitQuery /\ [][NextQuery]_vars

\* ------------------------------------------------------ query properties
\* C6: hardware getStepCount returns the requested startDate and endDate and
\* source 'pedometer'; when the external range query throws, rejects or
\* resolves to nothing, steps, distance, calories and activeMinutes are all 0;
\* when it resolves to n steps the record carries steps = n.
C6_GetStepCountDegrades ==
    (kind = "pedometer" /\ result.op = "getStepCount") =>
        LET v == result.value
            q == result.external.query
        IN  /\ v.startDate = result.args.startDate
            /\ v.endDate = result.args.endDate
            /\ v.source = "pedometer"
            /\ q.kind \in {"throw", "absent"} =>
                   /\ v.steps = 0
                   /\ v.distance = 0
                   /\ v.calories = 0
                   /\ v.activeMinutes = 0
            /\ q.kind = "steps" => v.steps = q.steps

\* The external range query rejected, for an interval whose ends differ.
C6_Witness ==
    /\ kind = "pedometer"
    /\ result.op = "getStepCount"
    /\ result.external.query.kind = "throw"
    /\ result.args.startDate # result.args.endDate

\* The capability is present: the probe resolved to true.
Present(p) == p.kind = "returns" /\ p.value

\* C7: hardware requestPermissions makes one availability probe and, when
\* the probe reports unavailable or throws, returns exactly
\* {granted: false, canAskAgain: false, status: 'denied'}; granted is true
\* exactly when the capability is present, and so is canAskAgain; the
\* simulation adapter always returns granted.
C7_PermissionFollowsAvailability ==
    result.op = "requestPermissions" =>
        IF kind = "pedometer"
        THEN LET probes == result.external.probes
             IN  /\ Len(probes) = 1
                 /\ ~Present(probes[1]) =>
                        result.value = [granted |-> FALSE, canAskAgain |-> FALSE,
                                        status |-> "denied"]
                 /\ result.value.granted <=> Present(probes[1])
                 /\ result.value.canAskAgain <=> Present(probes[1])
        ELSE result.value.granted

\* requestPermissions was called while the availability probe throws.
C7_Witness ==
    /\ kind = "pedometer"
    /\ result.op = "requestPermissions"
    /\ result.external.probes[1].kind = "throws"
    /\ ~result.value.granted

\* C8: hardware isAvailable returns isAvailable = false with a non-empty
\* error string whenever the probe resolves to false or throws, and
\* isAvailable = true with sensorType 'pedometer' and no error when it
\* resolves to true; the simulation adapter always returns isAvailable = true.
C8_AvailabilityReport ==
    result.op = "isAvailable" =>
        IF kind = "pedometer"
        THEN LET p == result.external.probes[1]
                 v == result.value
             IN  /\ ~Present(p) =>
                        /\ ~v.isAvailable
                        /\ v.error # Undefined
                        /\ v.error # Some("")
                 /\ Present(p) =>
                        /\ v.isAvailable
                        /\ v.sensorType = Some("pedometer")
                        /\ v.error = Undefined
        ELSE result.value.isAvailable

\* a is an earlier instant than b.
Before(a, b) == TimeDiff(a, b) < 0

\* C9: getHistoricalSteps(days) returns max(days, 0) entries; entry k starts
\* at the start of calendar day today - (n - k), so the entries are one per
\* day today-(days-1) .. today, strictly ascending by startDate, today last;
\* days <= 0 gives the empty sequence.
C9_HistoryOldestFirst ==
    result.op = "getHistoricalSteps" =>
        LET v == result.value
            n == Max(result.args.days, 0)
        IN  /\ Len(v) = n
            /\ \A k \in 1..n :
                   /\ DayNumber(v[k].startDate) = DayNumber(now) - (n - k)
                   /\ v[k].startDate.ms = 0
            /\ \A k \in 1..(n - 1) : Before(v[k].startDate, v[k + 1].startDate)
            /\ result.args.days <= 0 => v = <<>>

\* Three days were asked for on 1 March 2024: the days before it are the
\* 29th and 28th of February.
C9_Witness ==
    /\ result.op = "getHistoricalSteps"
    /\ result.args.days = 3
    /\ now.y = 2024 /\ now.m = 2 /\ now.d = 1
    /\ Len(result.value) = 3
    /\ result.value[1].startDate.m = 1 /\ result.value[1].startDate.d = 28

\* C10: every DailyStepData getHistoricalSteps returns has exactly 24
\* hourlyData entries whose hour fields are 0, 1, ..., 23 in that order.
C10_TwentyFourHours ==
    result.op = "getHistoricalSteps" =>
        \A k \in DOMAIN result.value :
            LET hourlyData == result.value[k].hourlyData
            IN  /\ Len(hourlyData) = 24
                /\ \A j \in DOMAIN hourlyData : hourlyData[j].hour = j - 1

\* --------------------------------------------------------- useStepCounter
\* Hook calls whose continuation (the code after their `await`) has not run.
MaxInFlight == 3
\* Subscriptions the hook makes during one run.
MaxHookSubs == 2

\* The listener the hook gives to startStepCounting (lines 159-163).
HookCallback == "setSteps"

\* The message of the Error an external call throws.
ThrownMessage == "sensor failure"

\* The useState initial values (lines 87-95).
InitialState ==
    [steps |-> 0, distance |-> 0, calories |-> 0, activeMinutes |-> 0,
     isCountingSteps |-> FALSE, isAvailable |-> FALSE, hasPermission |-> FALSE,
     todaySteps |-> Undefined, error |-> Undefined]

\* The state values the callbacks created by one render close over
\* (startCounting's dependencies, line 170).
Closure(state) ==
    [isAvailable |-> state.isAvailable,
     hasPermission |-> state.hasPermission,
     isCountingSteps |-> state.isCountingSteps]

Merge(state, updates) ==
    [k \in DOMAIN state |-> IF k \in DOMAIN updates THEN updates[k] ELSE state[k]]

\* setX(...) calls: React applies them while the component is mounted and
\* drops them afterwards.
SetState(h, updates) ==
    IF h.mounted THEN [h EXCEPT !.state = Merge(@, updates)] ELSE h

\* Everything but the hook.
adapterSide ==
    <<kind, subscription, lastStepCount, watchers, intervalId, currentSteps,
      isRunning, timers, pending, result, delivered, lastCallback, terminated,
      restarted, resetFrom, now>>

\* The component has rendered once and its mount effect is about to run.
\* The hook owns an ExpoPedometerAdapter (line 98).
InitHook ==
    /\ kind = "pedometer"
    /\ now = Epoch
    /\ InitAdapter
    /\ \E autoStart \in BOOLEAN :
           hook = [mounted |-> TRUE,
                   autoStart |-> autoStart,
                   state |-> InitialState,
                   rendered |-> Closure(InitialState),
                   firstRender |-> Closure(InitialState),
                   cleanupFn |-> 0,
                   mountPc |-> "isAvailable",
                   inFlight |-> <<>>,
                   draining |-> FALSE,
                   mountGranted |-> FALSE,
                   mountStart |-> "none",
                   stopped |-> FALSE,
                   invoked |-> <<>>,
                   available |-> FALSE,
                   grantedAfter |-> FALSE,
                   mountProbe |-> "none",
                   mountAsked |-> FALSE]

\* A task has run to completion and its continuations have all run.
Settled == hook.inFlight = <<>>

\* Synchronous code may call the hook: no continuation has started running.
Callable == hook.mounted /\ ~hook.draining

\* `availability.error || 'Sensor not available'` (line 111)
ErrorOr(error, fallback) ==
    IF error = Undefined \/ error = Some("") THEN fallback ELSE error[1]

\* What the hook has been told so far: `available`, an isAvailable call of
\* the adapter has reported available; `grantedAfter`, a requestPermissions
\* call has reported granted after one. requestPermissions makes an
\* isAvailable call of its own before it answers (adapter line 42).
Probed(h, availability) ==
    [h EXCEPT !.available = @ \/ availability.isAvailable]

Asked(h, p) ==
    LET probed == Probed(h, HwIsAvailableValue(p))
    IN  [probed EXCEPT !.grantedAfter =
            @ \/ (HwRequestPermissionsValue(p).granted /\ probed.available)]

\* Mount effect, lines 107-113: the availability probe and what follows it.
MountCheckAvailability(p) ==
    /\ hook.mountPc = "isAvailable"
    /\ Settled
    /\ LET availability == HwIsAvailableValue(p)
           told == [Probed(hook, availability) EXCEPT
                       !.mountProbe = IF availability.isAvailable THEN "available"
                                      ELSE "unavailable"]
           set == SetState(told, [isAvailable |-> availability.isAvailable])
       IN  hook' =
               IF ~availability.isAvailable
               THEN [SetState(set, [error |-> Some(ErrorOr(availability.error,
                                                           "Sensor not available"))])
                        EXCEPT !.mountPc = "done"]
               ELSE [set EXCEPT !.mountPc = "requestPermissions"]
    /\ UNCHANGED adapterSide

\* Mount effect, lines 115-121.
MountRequestPermissions(p) ==
    /\ hook.mountPc = "requestPermissions"
    /\ Settled
    /\ LET permission == HwRequestPermissionsValue(p)
           told == [Asked(hook, p) EXCEPT !.mountAsked = TRUE]
           set == SetState(told, [hasPermission |-> permission.granted])
       IN  hook' =
               IF ~permission.granted
               THEN [SetState(set, [error |-> Some("Permission not granted")])
                        EXCEPT !.mountPc = "done"]
               ELSE [set EXCEPT !.mountPc = "refreshData", !.mountGranted = TRUE]
    /\ UNCHANGED adapterSide

\* The range queries made for the hook's getTodaySteps.
HookQueries == {Steps(1400)}

\* refreshData (lines 191-203), called by the mount effect (line 124) or by
\* the component.
HookRefreshData(origin, q) ==
    /\ Settled
    /\ IF origin = "mount" THEN hook.mountPc = "refreshData" ELSE Callable
    /\ LET data == HwGetStepCountValue(AtTime(now, 0, 0, 0), now, q)
           set == SetState(hook, [todaySteps |-> Some(data),
                                  steps |-> data.steps,
                                  distance |-> data.distance,
                                  calories |-> data.calories,
                                  activeMinutes |-> data.activeMinutes,
                                  error |-> Undefined])
       IN  hook' =
               IF origin = "mount"
               THEN [set EXCEPT !.mountPc =
                        IF hook.autoStart THEN "startCounting" ELSE "done"]
               ELSE set
    /\ UNCHANGED adapterSide

\* requestPermissions (lines 208-217), called by the component.
HookRequestPermissions(p) ==
    /\ Settled
    /\ Callable
    /\ hook' = SetState(Asked(hook, p),
                        [hasPermission |-> HwRequestPermissionsValue(p).granted])
    /\ UNCHANGED adapterSide

\* The render whose startCounting a caller holds: the mount effect, created
\* with an empty dependency list (line 143), holds the first render's.
CallerClosure(origin) ==
    IF origin = "mount" THEN hook.firstRender ELSE hook.rendered

\* startCounting (lines 148-170) up to its `await`: the guards, then the
\* adapter's startStepCounting, which runs to its end inside the call.
HookStartCounting(origin, ro, wo) ==
    /\ IF origin = "mount"
       THEN hook.mountPc = "startCounting" /\ Settled
       ELSE Callable
    /\ Len(hook.inFlight) < MaxInFlight
    /\ LET closure == CallerClosure(origin)
           called == [hook EXCEPT !.mountPc = IF origin = "mount" THEN "done" ELSE @]
       IN  IF ~closure.isAvailable \/ ~closure.hasPermission
           THEN /\ ro = "ok" /\ wo = "ok"
                /\ hook' = SetState(called,
                       [error |-> Some("Sensor not available or permission not granted")])
                /\ UNCHANGED adapterSide
           ELSE IF closure.isCountingSteps
           THEN /\ ro = "ok" /\ wo = "ok"
                /\ hook' = called
                /\ UNCHANGED adapterSide
           ELSE /\ Len(watchers) < MaxHookSubs
                /\ HwStartStepCounting(HookCallback, ro, wo)
                /\ hook' = [called EXCEPT
                       !.inFlight = Append(@, [op |-> "startCounting",
                                               threw |-> result'.threw,
                                               cleanup |-> subscription',
                                               origin |-> origin,
                                               gate |-> hook.grantedAfter]),
                       !.mountStart = IF origin = "mount" THEN "invoked" ELSE @,
                       !.invoked = IF result'.threw THEN @ ELSE Append(@, 0)]

\* stopCounting (lines 175-186) up to its `await`.
HookStopCounting(ro) ==
    /\ Callable
    /\ Len(hook.inFlight) < MaxInFlight
    /\ HwStopStepCounting(ro)
    /\ hook' = [hook EXCEPT
           !.inFlight = Append(@, [op |-> "stopCounting", threw |-> result'.threw,
                                   cleanup |-> 0, origin |-> "user",
                                   gate |-> TRUE])]

\* The hook invokes the cleanup closure kept in cleanupFn.current.
Invoked(h) ==
    [h EXCEPT !.invoked =
        [k \in DOMAIN @ |-> IF k = h.cleanupFn THEN Saturate(@[k]) ELSE @[k]]]

\* The code after an `await` runs: lines 159-169 for startCounting, lines
\* 178-185 for stopCounting. Continuations run in the order of their calls.
HookResume(ro) ==
    /\ hook.inFlight # <<>>
    /\ LET c == Head(hook.inFlight)
           rest == [hook EXCEPT !.inFlight = Tail(@),
                                !.draining = Tail(hook.inFlight) # <<>>]
       IN  IF c.op = "startCounting"
           THEN /\ ro = "ok"
                /\ hook' =
                       IF c.threw
                       THEN SetState([rest EXCEPT
                                         !.mountStart =
                                             IF c.origin = "mount" THEN "failed" ELSE @],
                                     [error |-> Some(ThrownMessage)])
                       ELSE SetState([rest EXCEPT
                                         !.cleanupFn = c.cleanup,
                                         !.stopped = FALSE,
                                         !.mountStart =
                                             IF c.origin = "mount" THEN "counting" ELSE @],
                                     [isCountingSteps |-> TRUE, error |-> Undefined])
                /\ UNCHANGED adapterSide
           ELSE IF c.threw
           THEN /\ ro = "ok"
                /\ hook' = SetState([rest EXCEPT !.stopped = TRUE],
                                    [error |-> Some(ThrownMessage)])
                /\ UNCHANGED adapterSide
           ELSE IF hook.cleanupFn = 0
           THEN /\ ro = "ok"
                /\ hook' = SetState([rest EXCEPT !.stopped = TRUE],
                                    [isCountingSteps |-> FALSE])
                /\ UNCHANGED adapterSide
           ELSE /\ HwCleanup(ro)
                /\ hook' =
                       IF result'.threw
                       THEN SetState([Invoked(rest) EXCEPT !.stopped = TRUE],
                                     [error |-> Some(ThrownMessage)])
                       ELSE SetState([Invoked(rest) EXCEPT !.cleanupFn = 0,
                                                           !.stopped = TRUE],
                                     [isCountingSteps |-> FALSE])

\* The component unmounts: the effect's cleanup (lines 138-142) runs.
HookUnmount(ro) ==
    /\ Callable
    /\ IF hook.cleanupFn # 0
       THEN /\ HwCleanup(ro)
            /\ hook' = [Invoked(hook) EXCEPT !.mounted = FALSE]
       ELSE /\ ro = "ok"
            /\ hook' = [hook EXCEPT !.mounted = FALSE]
            /\ UNCHANGED adapterSide

\* React renders the component again: its callbacks now close over the
\* current state.
HookRender ==
    /\ hook.mounted
    /\ hook.rendered # Closure(hook.state)
    /\ hook' = [hook EXCEPT !.rendered = Closure(hook.state)]
    /\ UNCHANGED adapterSide

\* The pedometer reports count c; the hook's listeners call setSteps.
HookNotification(c) ==
    /\ Settled
    /\ HwNotification(c)
    /\ hook' = IF delivered' = <<>> THEN hook ELSE SetState(hook, [steps |-> c])

HookProbes == {p \in ProbeOutcomes : p.message = ""}

\* The cumulative counts the pedometer reports while the hook is subscribed.
HookCounts == {1}

\* What remove() does while the hook drives the adapter.
HookRemoveOutcomes == {"ok", "throwKept"}

NextHook ==
    \/ \E p \in HookProbes : MountCheckAvailability(p)
    \/ \E p \in HookProbes : MountRequestPermissions(p)
    \/ \E origin \in {"mount", "user"}, q \in HookQueries : HookRefreshData(origin, q)
    \/ \E p \in HookProbes : HookRequestPermissions(p)
    \/ \E origin \in {"mount", "user"}, ro \in HookRemoveOutcomes, wo \in WatchOutcomes :
           HookStartCounting(origin, ro, wo)
    \/ \E ro \in HookRemoveOutcomes : HookStopCounting(ro)
    \/ \E ro \in HookRemoveOutcomes : HookResume(ro)
    \/ \E ro \in HookRemoveOutcomes : HookUnmount(ro)
    \/ HookRender
    \/ \E c \in HookCounts : HookNotification(c)

SpecHook == InitHook /\ [][NextHook]_vars

\* ------------------------------------------------------- hook properties
\* The mount effect has run to its end, having seen the sensor available and
\* the permission granted, and the component is still mounted.
MountGranted ==
    /\ hook.mounted
    /\ hook.mountGranted
    /\ hook.mountPc = "done"
    /\ Settled

\* C11: with autoStart true, once the mount sequence has found the sensor
\* available and the permission granted and has run to its end, it has
\* invoked the adapter's startStepCounting and, unless that call failed,
\* isCountingSteps has been set to true.
C11_AutoStartCounts ==
    (hook.autoStart /\ MountGranted) => hook.mountStart \in {"counting", "failed"}

\* C12: once the component has unmounted and the hook calls that were in
\* flight have run to their end, no listener the hook registered is live;
\* and the hook invokes the cleanup closure of a subscription at most once.
C12_UnmountReleases ==
    /\ (~hook.mounted /\ Settled) => LiveWatchers = {}
    /\ \A k \in DOMAIN hook.invoked : hook.invoked[k] <= 1

\* No hook operation is in flight: the mount sequence has ended and every
\* call's continuation has run.
Quiescent ==
    /\ hook.mounted
    /\ hook.mountPc = "done"
    /\ Settled

\* The adapter holds a subscription whose listener is registered.
HasActiveSubscription == subscription # 0 /\ subscription \in LiveWatchers

\* C20: whenever no hook operation is in flight, isCountingSteps is true
\* exactly when the adapter holds an active subscription; and when the last
\* call to complete was stopCounting, no listener is live, the stored cleanup
\* closure is cleared and isCountingSteps is false.
C20_CountingMatchesSubscription ==
    Quiescent =>
        /\ hook.state.isCountingSteps <=> HasActiveSubscription
        /\ hook.stopped =>
               /\ LiveWatchers = {}
               /\ hook.cleanupFn = 0
               /\ ~hook.state.isCountingSteps

\* ----------------------------------------------------- record properties
\* The records the most recent query returned.
ReturnedRecords ==
    IF result.op \in {"getStepCount", "getTodaySteps"} THEN {result.value}
    ELSE IF result.op = "getHistoricalSteps"
    THEN {result.value[k] : k \in DOMAIN result.value}
    ELSE {}

\* C13: every StepData and DailyStepData either adapter returns, the zero
\* record of a failed query included, has steps >= 0 and carries the distance,
\* calories and active minutes the calculator gives for its steps with the
\* default stride, weight and cadence.
C13_DerivedFromSteps ==
    \A r \in ReturnedRecords :
        /\ r.steps >= 0
        /\ r.distance = calculateDistance(r.steps, DEFAULT_STRIDE_LENGTH)
        /\ r.calories = calculateCalories(r.steps, DEFAULT_WEIGHT_KG)
        /\ r.activeMinutes = calculateActiveMinutes(r.steps, DEFAULT_STEPS_PER_MINUTE)

\* A hardware history holding the zero record of a failed day query beside a
\* day with steps, calories and distance.
C13_Witness ==
    /\ kind = "pedometer"
    /\ result.op = "getHistoricalSteps"
    /\ result.external.world.dayFault = "throw"
    /\ \E r \in ReturnedRecords : r.steps = 0 /\ r.calories = 0
    /\ \E r \in ReturnedRecords : r.steps > 0 /\ r.calories > 0 /\ r.distance > 0

\* The instants of the calendar day of the most recent call.
SameDayInstants == {t \in CallTimes : t.y = now.y /\ t.m = now.m /\ t.d = now.d}

\* What the most recent getHistoricalSteps call returns when it is made at
\* instant t instead.
HistoryAt(t) ==
    IF kind = "pedometer"
    THEN HwGetHistoricalStepsValue(result.args.days, t, result.external.world)
    ELSE MockGetHistoricalStepsValue(result.args.days, t, result.external.random)

\* The ids getStepCount may give to the interval of the most recent call,
\* whatever the pedometer answers or the simulation draws.
StepCountIds ==
    IF kind = "pedometer"
    THEN {HwGetStepCountValue(result.args.startDate, result.args.endDate, q).id :
              q \in QueryOutcomes}
    ELSE {MockGetStepCountValue(result.args.startDate, result.args.endDate, r).id :
              r \in RandomSamples}

\* C14: a record's id depends on its source and interval only: getStepCount
\* repeated with the same arguments gives the same id, and getHistoricalSteps
\* called at another instant of the same calendar day returns, day for day,
\* records with the same interval and the same id.
C14_IdFromInterval ==
    /\ result.op = "getStepCount" => StepCountIds = {result.value.id}
    /\ result.op = "getHistoricalSteps" =>
           \A t \in SameDayInstants :
               \A k \in DOMAIN result.value :
                   /\ HistoryAt(t)[k].startDate = result.value[k].startDate
                   /\ HistoryAt(t)[k].endDate = result.value[k].endDate
                   /\ HistoryAt(t)[k].id = result.value[k].id

\* ----------------------------------------------- StepCalculator, applied
\* The arguments the calculator is called with.
MaxCalcSteps == 1500
MaxDistanceGoal == 150
MaxCalorieGoal == 100
MaxPaceSteps == 40
MaxMinutes == 8

Call(fn, args) == [op |-> "input", threw |-> FALSE, fn |-> fn, args |-> args]

CalcInputs ==
    {Call("calculateDistance", [steps |-> s, strideLength |-> l]) :
         s \in -MaxCalcSteps..MaxCalcSteps, l \in Strides}
    \cup {Call("calculateCalories", [steps |-> s, weightKg |-> w]) :
              s \in 0..MaxCalcSteps, w \in Weights}
    \cup {Call("stepsForDistance", [distanceKm |-> d, strideLength |-> DEFAULT_STRIDE_LENGTH]) :
              d \in 0..MaxDistanceGoal}
    \cup {Call("stepsForCalories", [calories |-> c, weightKg |-> w]) :
              c \in 0..MaxCalorieGoal, w \in Weights}
    \cup {Call("calculatePace", [steps |-> s, minutes |-> m]) :
              s \in -MaxPaceSteps..MaxPaceSteps, m \in 0..MaxMinutes}

\* A caller is about to call one static method of StepCalculator.
InitCalc ==
    /\ kind = "calculator"
    /\ now = Epoch
    /\ InitFields
    /\ result \in CalcInputs
    /\ hook = NoHook

Called(fn) == result.op = "input" /\ result.fn = fn

CalcCalculateDistance ==
    /\ Called("calculateDistance")
    /\ Returns("calculateDistance",
               calculateDistance(result.args.steps, result.args.strideLength),
               result.args, <<>>)

CalcCalculateCalories ==
    /\ Called("calculateCalories")
    /\ Returns("calculateCalories",
               calculateCalories(result.args.steps, result.args.weightKg),
               result.args, <<>>)

CalcStepsForDistance ==
    /\ Called("stepsForDistance")
    /\ Returns("stepsForDistance",
               stepsForDistance(result.args.distanceKm, result.args.strideLength),
               result.args, <<>>)

CalcStepsForCalories ==
    /\ Called("stepsForCalories")
    /\ Returns("stepsForCalories",
               stepsForCalories(result.args.calories, result.args.weightKg),
               result.args, <<>>)

CalcCalculatePace ==
    /\ Called("calculatePace")
    /\ Returns("calculatePace",
               calculatePace(result.args.steps, result.args.minutes),
               result.args, <<>>)

NextCalc ==
    \/ CalcCalculateDistance
    \/ CalcCalculateCalories
    \/ CalcStepsForDistance
    \/ CalcStepsForCalories
    \/ CalcCalculatePace

SpecCalc == InitCalc /\ [][NextCalc]_vars

\* C15: calculateDistance never returns a negative distance; for steps <= 0
\* it returns 0; for steps >= 0 and the default stride it returns
\* steps * 0.76 / 1000 rounded to two decimals, that is, a number of
\* hundredths of a kilometre within half a hundredth of the product.
C15_DistanceNeverNegative ==
    result.op = "calculateDistance" =>
        /\ result.value >= 0
        /\ result.args.steps <= 0 => result.value = 0
        /\ (result.args.steps >= 0 /\ result.args.strideLength = DEFAULT_STRIDE_LENGTH) =>
               2 * Abs(result.value * 1000 - result.args.steps * DEFAULT_STRIDE_LENGTH) <= 1000

\* C16: for every steps >= 0 and the default stride,
\* stepsForDistance(calculateDistance(steps)) >= steps.
C16_StepsSurviveRoundTrip ==
    (/\ result.op = "calculateDistance"
     /\ result.args.steps >= 0
     /\ result.args.strideLength = DEFAULT_STRIDE_LENGTH) =>
        stepsForDistance(result.value, DEFAULT_STRIDE_LENGTH) >= result.args.steps

\* C17: the inverse functions never underestimate their goal: with the
\* default stride calculateDistance(stepsForDistance(d)) >= d, and
\* calculateCalories(stepsForCalories(c, w), w) >= c.
C17_GoalIsReached ==
    /\ (result.op = "stepsForDistance" /\ result.args.strideLength = DEFAULT_STRIDE_LENGTH) =>
           calculateDistance(result.value, DEFAULT_STRIDE_LENGTH) >= result.args.distanceKm
    /\ result.op = "stepsForCalories" =>
           calculateCalories(result.value, result.args.weightKg) >= result.args.calories

\* C18: calculatePace(steps, minutes) is 0 when minutes = 0 and
\* floor(steps / minutes) otherwise, the greatest integer r with
\* r * minutes <= steps.
C18_PaceGuarded ==
    result.op = "calculatePace" =>
        /\ result.args.minutes = 0 => result.value = 0
        /\ result.args.minutes > 0 =>
               /\ result.value * result.args.minutes <= result.args.steps
               /\ result.args.steps < (result.value + 1) * result.args.minutes

C18_Witness ==
    /\ result.op = "calculatePace"
    /\ result.args.minutes = 0
    /\ result.args.steps = MaxPaceSteps
    /\ result.value = 0

\* C19: for steps >= 0 and weightKg > 0, calculateCalories(steps, weightKg)
\* is floor(steps * 45 * weightKg / 70000); in particular it is 45 for
\* (1000, 70) and 90 for (1000, 140).
C19_CaloriesFloor ==
    result.op = "calculateCalories" =>
        /\ result.value =
               (result.args.steps * CALORIES_PER_1000_STEPS * result.args.weightKg)
                   \div (1000 * DEFAULT_WEIGHT_KG)
        /\ (result.args.steps = 1000 /\ result.args.weightKg = 70) => result.value = 45
        /\ (result.args.steps = 1000 /\ result.args.weightKg = 140) => result.value = 90

\* ------------------------------------------------- notification properties
\* C21: on the hardware adapter an external notification with cumulative
\* count c, arriving while a listener is registered and the baseline is b,
\* makes exactly one callback invocation, with steps = c (as reported, not
\* clamped) and stepsSinceLastUpdate = c - b when c - b > 0 and absent
\* otherwise; afterwards the baseline is c.
C21_NotificationStep ==
    \A c \in 0..MaxSteps :
        (HwNotification(c) /\ LiveWatchers # {}) =>
            /\ Len(delivered') = 1
            /\ delivered'[1].update.steps = c
            /\ delivered'[1].update.stepsSinceLastUpdate =
                   IF c - lastStepCount > 0 THEN Some(c - lastStepCount)
                   ELSE Undefined
            /\ lastStepCount' = c

C21_NotificationDelta == [][C21_NotificationStep]_vars

\* The pedometer reported a count no greater than the baseline (its counter
\* was reset, or nothing changed): the update carries the count and no delta.
C21_Witness ==
    /\ kind = "pedometer"
    /\ result.op = "notification"
    /\ Len(delivered) = 1
    /\ delivered[1].update.steps = 1
    /\ delivered[1].update.stepsSinceLastUpdate = Undefined
    /\ lastStepCount = 1

\* C22: on the simulation adapter every tick of a subscription's timer emits
\* an update whose stepsSinceLastUpdate is in 1..5 and whose steps is the
\* steps of the previous update of that subscription plus that delta, the
\* first update's steps being its delta (nothing is carried over from an
\* earlier subscription); so within a subscription steps is the sum of the
\* deltas emitted and strictly increases.
C22_TotalIsSumOfDeltas ==
    result.op = "tick" =>
        LET u == delivered[1].update
        IN  /\ Len(delivered) = 1
            /\ u.stepsSinceLastUpdate \in {Some(n) : n \in 1..5}
            /\ u.steps = result.previous + u.stepsSinceLastUpdate[1]
            /\ u.steps > result.previous

\* --------------------------------------------------- history properties
\* The last millisecond of second h:59:59.
EndOfHour(h) == h * MsPerHour + 59 * 60000 + 59 * 1000 + 999

\* C23: for every day the hardware getHistoricalSteps returns, the hourly
\* breakdown issues exactly 24 range queries, hour 0 first, the query of hour
\* h running from h:00:00 to h:59:59 of that day; the entry of an hour whose
\* query throws or resolves to nothing has steps 0, every other entry has the
\* steps its own query returned, and the day's headline steps is what it is
\* when no hour query fails.
C23_HourlyIsolation ==
    (kind = "pedometer" /\ result.op = "getHistoricalSteps") =>
        LET v == result.value
            w == result.external.world
            unfailed == HwGetHistoricalStepsValue(result.args.days, now,
                                                  [w EXCEPT !.hourFault = "none"])
        IN  \A k \in DOMAIN v :
                LET day == v[k].startDate
                    i == Len(v) - k
                    issued == HwHourlyCalls(0, day, <<>>)
                    failed(h) == w.hourFault # "none" /\ i = w.faultDay /\ h = w.faultHour
                IN  /\ Len(issued) = 24
                    /\ Len(v[k].hourlyData) = 24
                    /\ \A h \in 0..23 :
                           /\ issued[h + 1].start = [day EXCEPT !.ms = h * MsPerHour]
                           /\ issued[h + 1].end = [day EXCEPT !.ms = EndOfHour(h)]
                           /\ v[k].hourlyData[h + 1].hour = h
                           /\ v[k].hourlyData[h + 1].steps =
                                  IF failed(h) THEN 0 ELSE RecordedHourSteps(day, h)
                    /\ v[k].steps = unfailed[k].steps

\* The query of hour 7 of one day threw: that hour has 0 steps, hour 8 of the
\* same day and hour 7 of another day have theirs, and so has the day.
C23_Witness ==
    /\ kind = "pedometer"
    /\ result.op = "getHistoricalSteps"
    /\ result.external.world.hourFault = "throw"
    /\ result.external.world.faultHour = 7
    /\ result.external.world.dayFault = "none"
    /\ \E k \in DOMAIN result.value, j \in DOMAIN result.value :
           /\ result.value[k].hourlyData[8].steps = 0
           /\ result.value[k].hourlyData[9].steps > 0
           /\ result.value[k].steps > 0
           /\ result.value[j].hourlyData[8].steps > 0

\* The sum of the numbers of a sequence.
RECURSIVE SumOf(_)
SumOf(numbers) ==
    IF numbers = <<>> THEN 0 ELSE Head(numbers) + SumOf(Tail(numbers))

HourlySteps(record) == [j \in DOMAIN record.hourlyData |-> record.hourlyData[j].steps]

\* C24: the simulation adapter's hourly weights sum to 1 (100 hundredths),
\* and for every DailyStepData its getHistoricalSteps returns the hourly steps
\* sum to at most the day's steps and fall short of it by at most 23.
C24_HourlySumWithinDay ==
    (kind = "mock" /\ result.op = "getHistoricalSteps") =>
        /\ SumOf(distribution) = 100
        /\ \A k \in DOMAIN result.value :
               LET total == SumOf(HourlySteps(result.value[k]))
               IN  /\ total <= result.value[k].steps
                   /\ result.value[k].steps - total <= 23

\* The instants whose local hour is that of the most recent call.
SameHourInstants == {t \in CallTimes : GetHours(t) = GetHours(now)}

\* C25: the simulation adapter's getTodaySteps returns, at local hour h, the
\* sum of the per-hour table's entries for hours 0..h, whatever the day and
\* whatever was drawn or called before; and the value at hour h1 is at most
\* the value at hour h2 for all h1 <= h2 in 0..23.
C25_TodayStepsByHour ==
    (kind = "mock" /\ result.op = "getTodaySteps") =>
        /\ result.value.steps = SumOf(SubSeq(stepsPerHour, 1, GetHours(now) + 1))
        /\ \A t \in SameHourInstants :
               MockGetTodayStepsValue(t).steps = result.value.steps
        /\ \A h1 \in 0..23, h2 \in 0..23 :
               h1 <= h2 =>
                   /\ generateRealisticDailySteps(h1) <= generateRealisticDailySteps(h2)
                   /\ generateRealisticDailySteps(h2) =
                          generateRealisticDailySteps(h1)
                              + SumOf(SubSeq(stepsPerHour, h1 + 2, h2 + 1))

\* getTodaySteps was called between 10:00 and 11:00: the entries of hours
\* 0..10 sum to 6050.
C25_Witness ==
    /\ kind = "mock"
    /\ result.op = "getTodaySteps"
    /\ GetHours(now) = 10
    /\ result.value.steps = 6050

\* C27: every DailyStepData getHistoricalSteps returns, on either adapter,
\* has goalTarget = 10000 and goalMet true exactly when steps >= 10000.
C27_GoalAtTenThousand ==
    result.op = "getHistoricalSteps" =>
        \A k \in DOMAIN result.value :
            /\ result.value[k].goalTarget = 10000
            /\ result.value[k].goalMet <=> result.value[k].steps >= 10000

\* A hardware history with a day of exactly 10000 steps, which meets the
\* goal, beside a day that falls short of it.
C27_Witness ==
    /\ kind = "pedometer"
    /\ result.op = "getHistoricalSteps"
    /\ \E k \in DOMAIN result.value :
           result.value[k].steps = 10000 /\ result.value[k].goalMet
    /\ \E k \in DOMAIN result.value :
           result.value[k].steps = 9500 /\ ~result.value[k].goalMet

\* ---------------------------------------------- cleanup and baseline
\* C28: on either adapter a cleanup function acts on the adapter: when a
\* later startStepCounting has replaced the subscription a cleanup function
\* came from, a cleanup function that is invoked and returns leaves the
\* adapter without subscription and the later subscription's listener or
\* timer terminated, and no notification or timer period then reaches its
\* callback.
C28_CleanupEndsCurrent ==
    restarted =>
        /\ (result.op = "cleanup" /\ ~result.threw) =>
               /\ LiveCount = 0
               /\ subscription = 0
               /\ intervalId = 0
               /\ ~isRunning
        /\ (terminated = "cleanup" /\ result.op \in {"notification", "tick"}) =>
               delivered = <<>>

\* startStepCounting(cbA), then startStepCounting(cbB), then a cleanup
\* function: the pedometer's next report reaches neither callback.
C28_Witness ==
    /\ kind = "pedometer"
    /\ restarted
    /\ terminated = "cleanup"
    /\ result.op = "notification"
    /\ result.steps > 0
    /\ delivered = <<>>
    /\ Len(watchers) = 2
    /\ watchers[1].callback = "cbA"
    /\ watchers[2].callback = "cbB"
    /\ lastCallback = "cbB"

HwStartStep ==
    \E cb \in Callbacks, ro \in RemoveOutcomes, wo \in WatchOutcomes :
        HwStartStepCounting(cb, ro, wo)

\* C29: on the hardware adapter lastStepCount changes only in a notification
\* (to the count it carries) and in stopStepCounting (to 0);
\* startStepCounting and the cleanup function leave it as it is, so the
\* first update of a subscription begun after a cleanup function or by
\* restarting carries the delta against the count the previous subscription
\* saw last.
C29_BaselineStep ==
    kind = "pedometer" =>
        /\ lastStepCount' # lastStepCount =>
               \/ \E c \in 0..MaxSteps : HwNotification(c) /\ lastStepCount' = c
               \/ \E ro \in RemoveOutcomes : HwStopStepCounting(ro) /\ lastStepCount' = 0
        /\ HwStartStep => lastStepCount' = lastStepCount
        /\ (\E ro \in RemoveOutcomes : HwCleanup(ro)) => lastStepCount' = lastStepCount
        /\ \A c \in 0..MaxSteps :
               (/\ HwNotification(c)
                /\ result.op = "startStepCounting"
                /\ ~result.threw
                /\ resetFrom < 0) =>
                   /\ delivered' # <<>>
                   /\ delivered'[1].update.stepsSinceLastUpdate =
                          IF c > lastStepCount THEN Some(c - lastStepCount)
                          ELSE Undefined

C29_BaselineFrame == [][C29_BaselineStep]_vars

\* A subscription saw the count 3 and was ended by its cleanup function;
\* startStepCounting has just subscribed again: the baseline is still 3.
C29_Witness ==
    /\ kind = "pedometer"
    /\ result.op = "startStepCounting"
    /\ ~result.threw
    /\ ~restarted
    /\ Len(watchers) = 2
    /\ watchers[1].removes = 1
    /\ LiveWatchers = {2}
    /\ lastStepCount = 3

\* C30: on the hardware adapter, whatever the sequence of startStepCounting,
\* stopStepCounting and cleanup calls and whichever external call throws,
\* remove() is called at most once on each subscription handle, and the
\* subscription field never holds a handle on which remove() has been called.
C30_HandleRemovedOnce ==
    kind = "pedometer" =>
        /\ \A h \in DOMAIN watchers : watchers[h].removes <= 1
        /\ subscription # 0 => watchers[subscription].removes = 0

\* ------------------------------------------------- the hook's protocol
\* The hook calls of startCounting that reached the adapter's
\* startStepCounting and whose continuation has not run yet.
StartsInFlight ==
    {i \in DOMAIN hook.inFlight : hook.inFlight[i].op = "startCounting"}

\* C26: the hook invokes the adapter's startStepCounting only when an
\* isAvailable call has reported available and, after one did, a
\* requestPermissions call has reported granted; and when the availability
\* probe of the mount sequence reports unavailable, the mount sequence sets
\* error and calls neither requestPermissions nor startStepCounting, and no
\* startStepCounting reaches the adapter afterwards.
C26_StartsAfterChecks ==
    /\ \A i \in StartsInFlight :
           /\ hook.available
           /\ hook.inFlight[i].gate
    /\ hook.mountProbe = "unavailable" =>
           /\ hook.mountPc = "done"
           /\ ~hook.mountAsked
           /\ hook.mountStart = "none"
           /\ StartsInFlight = {}
           /\ watchers = <<>>
           /\ hook.mounted =>
                  hook.state.error # Undefined \/ hook.state.todaySteps # Undefined

\* The component asked for the permission itself and startCounting has
\* reached the adapter: availability and permission had both been reported.
C26_Witness ==
    /\ StartsInFlight # {}
    /\ hook.available
    /\ hook.grantedAfter
    /\ ~hook.mountAsked
    /\ result.op = "startStepCounting"

====
